---- MODULE Spec2Model ----
(***************************************************************************)
(* A model of slack_exporter.py: one run of main() on one SlackExporter.   *)
(* The upstream Slack API and the file system are the environment: every   *)
(* request and every file operation is one step whose outcome is chosen    *)
(* nondeterministically.  Strings that the code converts (timestamps) are  *)
(* sequences of one-character strings, so that float() and replace() are   *)
(* computed rather than assumed.                                           *)
(***************************************************************************)
EXTENDS Integers, Sequences, FiniteSets, TLC

VARIABLES
    pc,                 \* position of main(): see PcValues
    exit_code,          \* -1 while running, then the process exit status
    include_replies,    \* config.get("include_replies", False)
    include_standalone, \* config.get("include_standalone_messages", False)
    messages,           \* fetch_messages: the list being accumulated / returned
    cursor,             \* fetch_messages: the pagination cursor, a local that
                        \* is gone ("None") once the loop is left
    ridx,               \* _fetch_replies_for_messages: index of the message in turn
    pidx,               \* export_threads_individually: index into thread_parents
    tasks,              \* pending _get_user_display calls of the thread in turn
    user_cache,         \* SlackExporter.user_cache
    written,            \* file names opened for writing, in order
    exported_count,     \* export_threads_individually: exported_count
    skipped_count,      \* export_threads_individually: skipped_count
    \* -- observation of the run (history variables, read by no action guard)
    fetched,            \* how often the history pages returned each message
    histCalls,          \* conversations.history requests issued: 0, 1, or 2
                        \* for more than one
    lastResp,           \* <<>>, or <<has_more / next_cursor of the last
                        \* history response>>
    lastCall,           \* the last get_user_info call and its result
    succeeded,          \* user id -> the profile users.info first answered
    lastFailed,         \* user ids whose latest get_user_info call failed
    raised,             \* components in which an exception has been raised
    badResponses,       \* endpoints that answered with a failure
    repliesLog,         \* history: the conversations.replies requests issued, each
                        \* with the index of its message and the replies returned
    call                \* the method call a unit run has made last: see UnitSpec

vars == <<pc, exit_code, include_replies, include_standalone, messages,
          cursor, ridx, pidx, tasks, user_cache, written, exported_count,
          skipped_count, fetched, histCalls, lastResp, lastCall,
          succeeded, lastFailed, raised, badResponses, repliesLog, call>>

\* ------------------------------------------------------------------ bounds
MaxMsgs == 2      \* messages the upstream hands out over all history pages
MaxBatch == 2     \* messages in one history page
MaxEntries == 2   \* entries in one conversations.replies response
UnitEntries == 3  \* entries in the conversations.replies response of a unit run
FracDigits == 1   \* fraction digits of a timestamp that float() keeps

\* ----------------------------------------------------------------- strings
\* A Python str the code converts is a sequence of one-character strings.
Digits == {"0", "1", "2", "3", "4", "5", "6", "7", "8", "9"}

DigitVal(c) ==
    CASE c = "0" -> 0 [] c = "1" -> 1 [] c = "2" -> 2 [] c = "3" -> 3
      [] c = "4" -> 4 [] c = "5" -> 5 [] c = "6" -> 6 [] c = "7" -> 7
      [] c = "8" -> 8 [] c = "9" -> 9

\* An optional dict entry: <<>> when the key is absent, <<v>> when present.
Absent == <<>>

Present(v) == <<v>>

Has(opt) == Len(opt) = 1

\* Number of "." in s.
RECURSIVE CountDots(_)
CountDots(s) ==
    IF s = <<>> THEN 0
    ELSE (IF s[1] = "." THEN 1 ELSE 0) + CountDots(Tail(s))

\* float(s) accepts s: decimal digits with at most one point and at least
\* one digit; anything else raises ValueError.
IsFloat(s) ==
    /\ \A i \in 1..Len(s) : s[i] \in Digits \cup {"."}
    /\ CountDots(s) <= 1
    /\ \E i \in 1..Len(s) : s[i] \in Digits

\* Position of the point, Len(s)+1 when there is none.
DotPos(s) ==
    IF \E i \in 1..Len(s) : s[i] = "."
    THEN CHOOSE i \in 1..Len(s) : s[i] = "."
    ELSE Len(s) + 1

\* The number a digit sequence denotes.
RECURSIVE NumOf(_)
NumOf(ds) ==
    IF ds = <<>> THEN 0
    ELSE NumOf(SubSeq(ds, 1, Len(ds) - 1)) * 10 + DigitVal(ds[Len(ds)])

RECURSIVE Pow10(_)
Pow10(n) == IF n = 0 THEN 1 ELSE 10 * Pow10(n - 1)

\* float(s) for a parseable s, in units of 10^-FracDigits: the digits after
\* the first FracDigits fraction digits are beyond the float's precision.
FloatOf(s) ==
    LET int == SubSeq(s, 1, DotPos(s) - 1)
        frac == SubSeq(s, DotPos(s) + 1, Len(s))
        kept == [i \in 1..FracDigits |-> IF i <= Len(frac) THEN frac[i] ELSE "0"]
    IN  NumOf(int) * Pow10(FracDigits) + NumOf(kept)

\* metadata["thread_id"].replace(".", "_")
ReplaceDots(s) == [i \in 1..Len(s) |-> IF s[i] = "." THEN "_" ELSE s[i]]

\* ---------------------------------------------------------------- messages
\* A message dict: ts, thread_ts and username are optional strings,
\* reply_count is msg.get("reply_count", 0), user is msg.get("user", ""),
\* replies is msg.get("replies", []), text is msg.get("text", "") and blocks
\* is msg.get("blocks", []).  A text is the sequence of its pieces, <<>> being
\* the empty string.
Msg(ts, thread_ts, reply_count, user, subtype, username) ==
    [ts |-> ts, thread_ts |-> thread_ts, reply_count |-> reply_count,
     user |-> user, subtype |-> subtype, username |-> username,
     replies |-> <<>>, text |-> <<>>, blocks |-> <<>>]

Ts10_0 == <<"1", "0", ".", "0">>

Ts2_5 == <<"2", ".", "5">>

Ts3_0 == <<"3", ".", "0">>

TsBad == <<"x">>

\* What conversations.history may put in a page.
MsgPool ==
    { Msg(Present(Ts10_0), Present(Ts10_0), 2, "U1", "", Absent),  \* parent, replies
      Msg(Present(Ts2_5), Present(Ts2_5), 0, "U2", "", Absent),    \* parent, none
      Msg(Present(Ts3_0), Absent, 0, "U1", "", Absent),            \* plain message
      Msg(Absent, Absent, 0, "", "", Absent),                      \* no ts at all
      Msg(Present(TsBad), Absent, 0, "U2", "", Absent) }           \* ts not a number

\* What conversations.replies may put in its message list.
ReplyPool ==
    { Msg(Present(Ts10_0), Present(Ts10_0), 2, "U1", "", Absent),
      Msg(Present(TsBad), Present(Ts10_0), 0, "U2", "", Absent) }

\* The number of occurrences of each pool message in ms.
Count(ms, m) == Cardinality({i \in 1..Len(ms) : ms[i] = m})

BagOf(ms) == [m \in MsgPool |-> Count(ms, m)]

BagSize(b) ==
    LET RECURSIVE Sum(_)
        Sum(S) == IF S = {} THEN 0
                  ELSE LET m == CHOOSE x \in S : TRUE IN b[m] + Sum(S \ {m})
    IN  Sum(DOMAIN b)

\* Sequences over S of length at most n.
SeqsUpTo(S, n) == UNION { [1..k -> S] : k \in 0..n }

Min(a, b) == IF a < b THEN a ELSE b

\* ------------------------------------------------------- fetch_messages
\* key=lambda x: float(x.get("ts", 0))
SortKeyRaises(m) == Has(m.ts) /\ ~IsFloat(m.ts[1])

SortKey(m) == IF Has(m.ts) THEN FloatOf(m.ts[1]) ELSE 0

\* The sort with reverse=True.
InsertByKey_Descending(sorted, m) ==
    LET n == Cardinality({i \in 1..Len(sorted) : SortKey(sorted[i]) >= SortKey(m)})
    IN  SubSeq(sorted, 1, n) \o <<m>> \o SubSeq(sorted, n + 1, Len(sorted))

\* list.sort is stable: m goes after every element whose key is <= its key.
InsertByKey(sorted, m) ==
    LET n == Cardinality({i \in 1..Len(sorted) : SortKey(sorted[i]) <= SortKey(m)})
    IN  SubSeq(sorted, 1, n) \o <<m>> \o SubSeq(sorted, n + 1, Len(sorted))

RECURSIVE SortByTs(_)
SortByTs(ms) ==
    IF ms = <<>> THEN <<>>
    ELSE InsertByKey(SortByTs(SubSeq(ms, 1, Len(ms) - 1)), ms[Len(ms)])

\* "messages = batch_messages" in place of the extend.
Extend_Overwrite(acc, batch_messages) == batch_messages

\* messages.extend(batch_messages)
Extend(acc, batch_messages) == acc \o batch_messages

\* bool(x) of an optional string: None and "" are falsy.
Truthy(c) == c \notin {"None", ""}

\* The slice taken at the wrong end: all_messages[:-1].
StripParent_DropsLast(all_messages) ==
    IF Len(all_messages) > 1
    THEN SubSeq(all_messages, 1, Len(all_messages) - 1)
    ELSE <<>>

\* all_messages[1:] if len(all_messages) > 1 else []
StripParent(all_messages) ==
    IF Len(all_messages) > 1 THEN Tail(all_messages) ELSE <<>>

\* The loop of _fetch_replies_for_messages without its reply_count test.
NextThreaded_All(ms, i) == IF i <= Len(ms) THEN i ELSE 0

\* The first index >= i of a message with msg.get("reply_count", 0) > 0,
\* 0 when the loop of _fetch_replies_for_messages has no such message left.
NextThreaded(ms, i) ==
    LET left == {j \in i..Len(ms) : ms[j].reply_count > 0}
    IN  IF left = {} THEN 0 ELSE CHOOSE j \in left : \A k \in left : j <= k

\* ------------------------------------------- export_threads_individually
\* [msg for msg in messages if msg.get("thread_ts") == msg.get("ts")]
IsThreadParent(m) == m.thread_ts = m.ts

RECURSIVE ThreadParents(_)
ThreadParents(ms) ==
    IF ms = <<>> THEN <<>>
    ELSE IF IsThreadParent(ms[1]) THEN <<ms[1]>> \o ThreadParents(Tail(ms))
    ELSE ThreadParents(Tail(ms))

\* has_replies = len(parent_msg.get("replies", [])) > 0
HasReplies(m) == Len(m.replies) > 0

\* The skip test without "and not include_standalone".
Skips_IgnoresStandalone(m, standalone) == ~HasReplies(m)

\* if not has_replies and not include_standalone: skip
Skips(m, standalone) == ~HasReplies(m) /\ ~standalone

\* float(ts) for ts = message.get("ts", ""): raises on "" and on a non-number.
TsParseRaises(m) == ~Has(m.ts) \/ ~IsFloat(m.ts[1])

\* filename = f"thread_{thread_id}.md", thread_id = ts with "." replaced
FileName(m) ==
    <<"thread_">> \o ReplaceDots(IF Has(m.ts) THEN m.ts[1] ELSE <<>>) \o <<".md">>

\* Tasks: the _get_user_display(user_id, message) calls of one thread, in the
\* order the code makes them; ts is kept for the float(ts) that follows the
\* call in _write_message_md.
Task(m) == [user |-> m.user, subtype |-> m.subtype, username |-> m.username,
            ts |-> m.ts]

RECURSIVE TasksOf(_)
TasksOf(ms) == IF ms = <<>> THEN <<>> ELSE <<Task(ms[1])>> \o TasksOf(Tail(ms))

RECURSIVE WithUser(_)
WithUser(ms) ==
    IF ms = <<>> THEN <<>>
    ELSE IF ms[1].user # "" THEN <<ms[1]>> \o WithUser(Tail(ms))
    ELSE WithUser(Tail(ms))

\* _extract_thread_metadata: the author, then _get_thread_participants: the
\* parent if it has a user, then every reply that has one.
MetadataTasks(p) == TasksOf(<<p>> \o WithUser(<<p>> \o p.replies))

\* _write_message_md for the parent, then for every reply.
WriteTasks(p) == TasksOf(<<p>> \o p.replies)

\* ------------------------------------------------------------ the gateway
RequestStatus == {"ok", "api_error", "transport_error"}

\* _make_request without its data.get("ok") test.
MakeRequestRaises_TransportOnly(status) == status = "transport_error"

\* _make_request: raises unless the transport succeeded and data["ok"].
MakeRequestRaises(status) == status # "ok"

\* The except clause that catches an exception raised in a component.
CatchSite(component) ==
    CASE component = "users.info" -> "get_user_info"
      [] component = "metadata.ts" -> "_extract_thread_metadata"
      [] component = "render.ts" -> "_write_message_md"
      [] OTHER -> "main"

\* ---------------------------------------------------------- get_user_info
Users == {"U1", "U2"}

EmptyProfile == [nonempty |-> FALSE, real_name |-> "", display_name |-> "",
                 name |-> ""]

\* data.get("user", {}) of an ok users.info response.
ProfilePool ==
    { [nonempty |-> TRUE, real_name |-> "Alice", display_name |-> "",
       name |-> "alice"],
      EmptyProfile }

UsersInfoResponses ==
    [status : {"ok"}, user : ProfilePool]
    \cup [status : {"api_error", "transport_error"}, user : {EmptyProfile}]

NoCache == [u \in {} |-> EmptyProfile]

\* get_user_info without "self.user_cache[user_id] = user_info".
GetUserInfo_NoStore(user_id, cache, resp) ==
    IF resp.status = "ok"
    THEN [result |-> resp.user, cache |-> cache, upstream |-> TRUE,
          failed |-> FALSE]
    ELSE [result |-> EmptyProfile, cache |-> cache, upstream |-> TRUE,
          failed |-> TRUE]

\* get_user_info storing the empty result of a failed lookup as well.
GetUserInfo_CachesFailure(user_id, cache, resp) ==
    IF user_id \in DOMAIN cache
    THEN [result |-> cache[user_id], cache |-> cache, upstream |-> FALSE,
          failed |-> FALSE]
    ELSE IF resp.status = "ok"
    THEN [result |-> resp.user, cache |-> cache @@ (user_id :> resp.user),
          upstream |-> TRUE, failed |-> FALSE]
    ELSE [result |-> EmptyProfile, cache |-> cache @@ (user_id :> EmptyProfile),
          upstream |-> TRUE, failed |-> TRUE]

\* get_user_info(user_id) on cache, resp being what users.info would answer:
\* the profile returned, the cache afterwards, whether a request was issued
\* and whether it failed.
GetUserInfo(user_id, cache, resp) ==
    IF user_id \in DOMAIN cache
    THEN [result |-> cache[user_id], cache |-> cache, upstream |-> FALSE,
          failed |-> FALSE]
    ELSE IF ~MakeRequestRaises(resp.status)
    THEN [result |-> resp.user, cache |-> cache @@ (user_id :> resp.user),
          upstream |-> TRUE, failed |-> FALSE]
    ELSE [result |-> EmptyProfile, cache |-> cache, upstream |-> TRUE,
          failed |-> TRUE]

\* _get_user_display reaches get_user_info unless the message is a bot
\* message or has no user id.
NeedsLookup(task) == task.subtype # "bot_message" /\ task.user # ""

\* ------------------------------------------------------- _get_user_display
\* A label is the sequence of the pieces of its string: f"User {user_id}"
\* is <<"User ", user_id>>.
\* real_name or display_name or username or f"User {user_id}"
FirstNonEmpty(real_name, display_name, username, user_id) ==
    IF real_name # "" THEN <<real_name>>
    ELSE IF display_name # "" THEN <<display_name>>
    ELSE IF username # "" THEN <<username>>
    ELSE <<"User ", user_id>>

\* _get_user_display resolving a bot message like any other message.
UserDisplay_BotLooksUp(user_id, message, cache, resp) ==
    IF user_id = ""
    THEN [label |-> <<"Unknown User">>, cache |-> cache, upstream |-> FALSE,
          looked_up |-> FALSE]
    ELSE LET r == GetUserInfo(user_id, cache, resp)
         IN  [label |-> IF r.result.nonempty
                        THEN FirstNonEmpty(r.result.real_name,
                                           r.result.display_name,
                                           r.result.name, user_id)
                        ELSE <<"User ", user_id>>,
              cache |-> r.cache, upstream |-> r.upstream, looked_up |-> TRUE]

\* _get_user_display(user_id, message) on cache, resp being what users.info
\* would answer: the label returned, the cache afterwards, whether
\* get_user_info was called and whether it issued a request.
UserDisplay(user_id, message, cache, resp) ==
    IF message.subtype = "bot_message"
    THEN [label |-> IF Has(message.username) THEN <<message.username[1]>>
                    ELSE <<"Bot">>,
          cache |-> cache, upstream |-> FALSE, looked_up |-> FALSE]
    ELSE IF user_id = ""
    THEN [label |-> <<"Unknown User">>, cache |-> cache, upstream |-> FALSE,
          looked_up |-> FALSE]
    ELSE LET r == GetUserInfo(user_id, cache, resp)
         IN  [label |-> IF r.result.nonempty
                        THEN FirstNonEmpty(r.result.real_name,
                                           r.result.display_name,
                                           r.result.name, user_id)
                        ELSE <<"User ", user_id>>,
              cache |-> r.cache, upstream |-> r.upstream, looked_up |-> TRUE]

\* ------------------------------------------------- _get_thread_participants
\* The labels the model's users, bots and fallbacks can get, in the order
\* sorted() puts their strings (by code point: capitals before small letters).
LabelOrder ==
    << <<"Alice">>, <<"Bot">>, <<"DeployBot">>, <<"Unknown User">>,
       <<"User ", "U1">>, <<"User ", "U2">>, <<"alice">> >>

\* sorted(list(participants))
SortedLabels(participants) ==
    LET RECURSIVE Pick(_)
        Pick(i) == IF i > Len(LabelOrder) THEN <<>>
                   ELSE IF LabelOrder[i] \in participants
                   THEN <<LabelOrder[i]>> \o Pick(i + 1)
                   ELSE Pick(i + 1)
    IN  Pick(1)

\* The messages of a thread whose author _get_thread_participants resolves:
\* those with a non-empty "user".
Resolved(ms) == WithUser(ms)

\* _get_thread_participants(parent_msg) on cache, resps[k] being what
\* users.info would answer to the k-th _get_user_display call: the list
\* returned and the cache afterwards.
ThreadParticipants(parent_msg, cache, resps) ==
    LET authors == Resolved(<<parent_msg>> \o parent_msg.replies)
        RECURSIVE Add(_, _, _)
        Add(k, participants, c) ==
            IF k > Len(authors)
            THEN [result |-> SortedLabels(participants), cache |-> c]
            ELSE LET d == UserDisplay(authors[k].user, authors[k], c, resps[k])
                 IN  Add(k + 1, participants \cup {d.label}, d.cache)
    IN  Add(1, {}, cache)

\* ------------------------------------------------ _extract_text_from_blocks
\* An item of a rich_text_section: text and user_id are optional, url and
\* name are item.get("url", "") and item.get("name", "").
Item(type, text, url, name, user_id) ==
    [type |-> type, text |-> text, url |-> url, name |-> name,
     user_id |-> user_id]

\* The items the three nested loops visit, in order: those of the
\* rich_text_section elements of the rich_text blocks.
RECURSIVE ItemsOf(_)
ItemsOf(blocks) ==
    LET RECURSIVE Sections(_)
        Sections(es) ==
            IF es = <<>> THEN <<>>
            ELSE (IF es[1].type = "rich_text_section" THEN es[1].elements
                  ELSE <<>>) \o Sections(Tail(es))
    IN  IF blocks = <<>> THEN <<>>
        ELSE (IF blocks[1].type = "rich_text" THEN Sections(blocks[1].elements)
              ELSE <<>>) \o ItemsOf(Tail(blocks))

\* "".join(text_parts)
RECURSIVE Join(_)
Join(text_parts) ==
    IF text_parts = <<>> THEN <<>> ELSE text_parts[1] \o Join(Tail(text_parts))

\* _extract_text_from_blocks(blocks) on cache, resps[k] being what users.info
\* would answer for the k-th user item: the optional text returned (None when
\* no item contributed) and the cache afterwards.
ExtractTextFromBlocks(blocks, cache, resps) ==
    LET items == ItemsOf(blocks)
        RECURSIVE Walk(_, _, _, _)
        Walk(i, k, text_parts, c) ==
            IF i > Len(items)
            THEN [result |-> IF text_parts = <<>> THEN Absent
                             ELSE Present(Join(text_parts)),
                  cache |-> c]
            ELSE LET item == items[i]
                 IN  CASE item.type = "text" ->
                            Walk(i + 1, k,
                                 Append(text_parts,
                                        IF Has(item.text) THEN item.text[1]
                                        ELSE <<>>), c)
                       [] item.type = "link" ->
                            Walk(i + 1, k,
                                 Append(text_parts,
                                        <<"[">>
                                        \o (IF Has(item.text) THEN item.text[1]
                                            ELSE IF item.url = "" THEN <<>>
                                            ELSE <<item.url>>)
                                        \o <<"](">>
                                        \o (IF item.url = "" THEN <<>>
                                            ELSE <<item.url>>)
                                        \o <<")">>), c)
                       [] item.type = "user" ->
                            LET user_id == IF Has(item.user_id)
                                           THEN item.user_id[1] ELSE "unknown"
                                r == GetUserInfo(user_id, c, resps[k])
                                user_display ==
                                    IF ~r.result.nonempty THEN user_id
                                    ELSE IF r.result.display_name # ""
                                    THEN r.result.display_name
                                    ELSE IF r.result.name # ""
                                    THEN r.result.name
                                    ELSE user_id
                            IN  Walk(i + 1, k + 1,
                                     Append(text_parts, <<"@", user_display>>),
                                     r.cache)
                       [] item.type = "emoji" ->
                            Walk(i + 1, k,
                                 Append(text_parts,
                                        <<":">>
                                        \o (IF item.name = "" THEN <<>>
                                            ELSE <<item.name>>)
                                        \o <<":">>), c)
                       [] OTHER -> Walk(i + 1, k, text_parts, c)
    IN  Walk(1, 1, <<>>, cache)

\* bool(x) of an optional text: None and "" are falsy.
TruthyText(opt) == Has(opt) /\ opt[1] # <<>>

\* --------------------------------------------------------- _write_message_md
\* The text _write_message_md would take if it looked at the blocks only
\* when the explicit text is empty, as the title of the thread file does.
BodyText_TextFirst(text, blocks, block_text) ==
    IF text # <<>> THEN text
    ELSE IF blocks # <<>> /\ TruthyText(block_text) THEN block_text[1]
    ELSE text

\* The text _write_message_md writes: message.get("text", ""), replaced by
\* the block text when there are blocks and their text is truthy.
BodyText(text, blocks, block_text) ==
    IF blocks # <<>> /\ TruthyText(block_text) THEN block_text[1] ELSE text

\* _write_message_md(file, message) on cache, resps[1] being what users.info
\* would answer for the author and the rest for the user items of the
\* blocks: the author label and the text written, and the cache afterwards.
WriteMessageMd(message, cache, resps) ==
    LET d == UserDisplay(message.user, message, cache, resps[1])
        b == IF message.blocks # <<>>
             THEN ExtractTextFromBlocks(message.blocks, d.cache, Tail(resps))
             ELSE [result |-> Absent, cache |-> d.cache]
    IN  [username |-> d.label,
         text |-> BodyText(message.text, message.blocks, b.result),
         block_text |-> b.result,
         cache |-> b.cache]

\* -------------------------------------------------------------------- main
PcValues == {"channel_info", "history", "replies", "mkdir", "export",
             "metadata", "write", "exported", "no_messages", "failed"}

Final == {"exported", "no_messages", "failed"}

CursorPool == {"None", "", "c1", "c2"}

NoCall == [user |-> "", upstream |-> FALSE, failed |-> FALSE,
           retry |-> FALSE, result |-> EmptyProfile]

\* No method has been called on its own: the state of call in a whole run.
NoUnitCall == [fn |-> "none"]

\* Counting requests as none, one, several.
Bump(n) == IF n = 0 THEN 1 ELSE 2

Init ==
    /\ pc = "channel_info"
    /\ exit_code = -1
    /\ include_replies \in BOOLEAN
    /\ include_standalone \in BOOLEAN
    /\ messages = <<>>
    /\ cursor = "None"
    /\ ridx = 0
    /\ pidx = 0
    /\ tasks = <<>>
    /\ user_cache = NoCache
    /\ written = <<>>
    /\ exported_count = 0
    /\ skipped_count = 0
    /\ fetched = BagOf(<<>>)
    /\ histCalls = 0
    /\ lastResp = <<>>
    /\ lastCall = NoCall
    /\ succeeded = NoCache
    /\ lastFailed = {}
    /\ raised = {}
    /\ badResponses = {}
    /\ repliesLog = <<>>
    /\ call = NoUnitCall

\* main's handler without its sys.exit(1).
Abort_ExitZero(component) ==
    /\ raised' = raised \cup {component}
    /\ pc' = "failed"
    /\ exit_code' = 0

\* An exception raised in component reaches main's "except Exception", which
\* prints it and exits with status 1.
Abort(component) ==
    /\ raised' = raised \cup {component}
    /\ pc' = "failed"
    /\ exit_code' = 1

\* exporter.get_channel_info(channel_id)
GetChannelInfo ==
    /\ pc = "channel_info"
    /\ \E status \in RequestStatus :
          /\ badResponses' = IF status = "ok" THEN badResponses
                             ELSE badResponses \cup {"conversations.info"}
          /\ IF MakeRequestRaises(status)
             THEN Abort("conversations.info")
             ELSE pc' = "history" /\ UNCHANGED <<exit_code, raised>>
    /\ UNCHANGED <<include_replies, include_standalone, messages, cursor, ridx,
                   pidx, tasks, user_cache, written, exported_count,
                   skipped_count, fetched, histCalls, lastResp,
                   lastCall, succeeded, lastFailed>>
    /\ UNCHANGED <<repliesLog, call>>

\* The cursor parameter of the next conversations.history request:
\* if cursor: params["cursor"] = cursor
RequestCursor(c) == IF Truthy(c) THEN Present(c) ELSE Absent

\* The loop testing cursor == "" instead of "not cursor".
LoopBreaks_EmptyOnly(has_more, next_cursor) == ~has_more \/ next_cursor = ""

\* The loop testing "cursor is None" instead of "not cursor".
LoopBreaks_NoneOnly(has_more, next_cursor) == ~has_more \/ next_cursor = "None"

\* The loop without its "if not cursor: break".
LoopBreaks_IgnoresCursor(has_more, next_cursor) == ~has_more

\* The while loop of fetch_messages leaves after this response.
LoopBreaks(has_more, next_cursor) == ~has_more \/ ~Truthy(next_cursor)

\* fetch_messages has returned ms to main: "if not messages: return".
Returned(ms) ==
    IF ms = <<>>
    THEN pc' = "no_messages" /\ exit_code' = 0
    ELSE pc' = "mkdir" /\ UNCHANGED exit_code

\* What a conversations.history answer holds besides ok: the page, has_more
\* and response_metadata.next_cursor (here absent whenever has_more is
\* false).  An error answer holds none of them.
HistoryBodies(status, room) ==
    IF status = "ok"
    THEN [messages : SeqsUpTo(MsgPool, Min(MaxBatch, room)),
          has_more : {TRUE}, next_cursor : CursorPool]
         \cup [messages : SeqsUpTo(MsgPool, Min(MaxBatch, room)),
               has_more : {FALSE}, next_cursor : {"None"}]
    ELSE {[messages |-> <<>>, has_more |-> FALSE, next_cursor |-> "None"]}

\* One iteration of the pagination loop of fetch_messages and, when the loop
\* ends, the sort and the start of _fetch_replies_for_messages.
HistoryPage ==
    /\ pc = "history"
    /\ histCalls' = Bump(histCalls)
    /\ \E status \in RequestStatus :
       \E data \in HistoryBodies(status, MaxMsgs - BagSize(fetched)) :
          /\ badResponses' = IF status = "ok" THEN badResponses
                             ELSE badResponses \cup {"conversations.history"}
          /\ IF MakeRequestRaises(status)
             THEN /\ Abort("conversations.history")
                  /\ UNCHANGED <<messages, cursor, ridx, fetched, lastResp>>
             ELSE LET all == Extend(messages, data.messages)
                      sorted == SortByTs(all)
                  IN  /\ fetched' = [m \in MsgPool |-> fetched[m] + Count(data.messages, m)]
                      /\ lastResp' = <<[has_more |-> data.has_more,
                                       next_cursor |-> data.next_cursor]>>
                      /\ cursor' = IF ~LoopBreaks(data.has_more, data.next_cursor)
                                   THEN data.next_cursor
                                   ELSE "None"
                      /\ IF ~LoopBreaks(data.has_more, data.next_cursor)
                         THEN /\ messages' = all
                              /\ UNCHANGED <<pc, exit_code, raised, ridx>>
                         ELSE IF \E i \in 1..Len(all) : SortKeyRaises(all[i])
                         THEN /\ messages' = all
                              /\ Abort("sort")
                              /\ UNCHANGED ridx
                         ELSE /\ messages' = sorted
                              /\ UNCHANGED raised
                              /\ IF include_replies /\ NextThreaded(sorted, 1) # 0
                                 THEN /\ pc' = "replies"
                                      /\ ridx' = NextThreaded(sorted, 1)
                                      /\ UNCHANGED exit_code
                                 ELSE Returned(sorted) /\ UNCHANGED ridx
    /\ UNCHANGED <<include_replies, include_standalone, pidx, tasks, user_cache,
                   written, exported_count, skipped_count, lastCall, succeeded, lastFailed>>
    /\ UNCHANGED <<repliesLog, call>>

\* The message list of a conversations.replies answer.
RepliesBodies(status) ==
    IF status = "ok" THEN SeqsUpTo(ReplyPool, MaxEntries) ELSE {<<>>}

\* One iteration of _fetch_replies_for_messages that calls
\* _fetch_thread_replies, up to the next such iteration or the return.
FetchThreadReplies ==
    /\ pc = "replies"
    /\ \E status \in RequestStatus :
       \E all_messages \in RepliesBodies(status) :
          /\ badResponses' = IF status = "ok" THEN badResponses
                             ELSE badResponses \cup {"conversations.replies"}
          /\ IF MakeRequestRaises(status)
             THEN /\ Abort("conversations.replies")
                  /\ repliesLog' = Append(repliesLog,
                                          [idx |-> ridx, result |-> Absent])
                  /\ UNCHANGED <<messages, ridx>>
             ELSE LET ms == [messages EXCEPT
                                ![ridx].replies = StripParent(all_messages)]
                  IN  /\ messages' = ms
                      /\ repliesLog' =
                            Append(repliesLog,
                                   [idx |-> ridx,
                                    result |-> Present(StripParent(all_messages))])
                      /\ UNCHANGED raised
                      /\ IF NextThreaded(ms, ridx + 1) # 0
                         THEN /\ ridx' = NextThreaded(ms, ridx + 1)
                              /\ UNCHANGED <<pc, exit_code>>
                         ELSE Returned(ms) /\ UNCHANGED ridx
    /\ UNCHANGED <<include_replies, include_standalone, cursor, pidx, tasks,
                   user_cache, written, exported_count, skipped_count, fetched,
                   histCalls, lastResp, lastCall, succeeded, lastFailed>>
    /\ UNCHANGED call

\* threads_dir.mkdir(parents=True, exist_ok=True)
MakeThreadsDir ==
    /\ pc = "mkdir"
    /\ \E ok \in BOOLEAN :
          IF ok
          THEN pc' = "export" /\ pidx' = 1 /\ UNCHANGED <<exit_code, raised>>
          ELSE Abort("mkdir") /\ UNCHANGED pidx
    /\ UNCHANGED <<include_replies, include_standalone, messages, cursor, ridx,
                   tasks, user_cache, written, exported_count, skipped_count,
                   fetched, histCalls, lastResp, lastCall, succeeded, lastFailed, badResponses>>
    /\ UNCHANGED <<repliesLog, call>>

\* The parent that the loop of export_threads_individually is at.
Parent == ThreadParents(messages)[pidx]

\* The head of "for parent_msg in thread_parents": the loop ends, the parent
\* is skipped, or _extract_thread_metadata starts on it (its float(ts) first).
ExportParent ==
    /\ pc = "export"
    /\ IF pidx > Len(ThreadParents(messages))
       THEN /\ pc' = "exported" /\ exit_code' = 0
            /\ UNCHANGED <<pidx, tasks, skipped_count, raised>>
       ELSE IF Skips(Parent, include_standalone)
       THEN /\ skipped_count' = skipped_count + 1
            /\ pidx' = pidx + 1
            /\ UNCHANGED <<pc, exit_code, tasks, raised>>
       ELSE IF TsParseRaises(Parent) /\ CatchSite("metadata.ts") = "main"
       THEN /\ Abort("metadata.ts")
            /\ UNCHANGED <<pidx, tasks, skipped_count>>
       ELSE /\ pc' = "metadata"
            /\ tasks' = MetadataTasks(Parent)
            /\ raised' = IF TsParseRaises(Parent)
                         THEN raised \cup {"metadata.ts"} ELSE raised
            /\ UNCHANGED <<pidx, skipped_count, exit_code>>
    /\ UNCHANGED <<include_replies, include_standalone, messages, cursor, ridx,
                   user_cache, written, exported_count, fetched, histCalls,
                   lastResp, lastCall, succeeded,
                   lastFailed, badResponses>>
    /\ UNCHANGED <<repliesLog, call>>

\* One _get_user_display call of the thread in turn: during
\* _extract_thread_metadata (pc = "metadata") or inside _write_message_md
\* (pc = "write"), where the float(ts) of the message follows it.
GetUserDisplay ==
    /\ pc \in {"metadata", "write"}
    /\ tasks # <<>>
    /\ LET task == Head(tasks)
           tsRaises == pc = "write" /\ TsParseRaises(task)
       IN  /\ IF NeedsLookup(task)
              THEN \E resp \in (IF task.user \in DOMAIN user_cache
                                THEN {[status |-> "ok", user |-> EmptyProfile]}
                                ELSE UsersInfoResponses) :
                      LET r == GetUserInfo(task.user, user_cache, resp)
                      IN  /\ user_cache' = r.cache
                          /\ lastCall' = [user |-> task.user,
                                          upstream |-> r.upstream,
                                          failed |-> r.failed,
                                          retry |-> task.user \in lastFailed,
                                          result |-> r.result]
                          /\ succeeded' =
                                IF r.upstream /\ resp.status = "ok"
                                THEN succeeded @@ (task.user :> resp.user)
                                ELSE succeeded
                          /\ lastFailed' =
                                IF r.upstream /\ resp.status # "ok"
                                THEN lastFailed \cup {task.user}
                                ELSE lastFailed \ {task.user}
                          /\ badResponses' =
                                IF r.upstream /\ resp.status # "ok"
                                THEN badResponses \cup {"users.info"}
                                ELSE badResponses
                          /\ IF tsRaises /\ CatchSite("render.ts") = "main"
                             THEN Abort("render.ts")
                             ELSE /\ raised' = raised
                                       \cup (IF r.failed THEN {"users.info"} ELSE {})
                                       \cup (IF tsRaises THEN {"render.ts"} ELSE {})
                                  /\ UNCHANGED <<pc, exit_code>>
              ELSE /\ UNCHANGED <<user_cache, lastCall, succeeded,
                                  lastFailed, badResponses>>
                   /\ IF tsRaises /\ CatchSite("render.ts") = "main"
                      THEN Abort("render.ts")
                      ELSE /\ raised' = raised
                                \cup (IF tsRaises THEN {"render.ts"} ELSE {})
                           /\ UNCHANGED <<pc, exit_code>>
           /\ tasks' = Tail(tasks)
    /\ UNCHANGED <<include_replies, include_standalone, messages, cursor, ridx,
                   pidx, written, exported_count, skipped_count, fetched,
                   histCalls, lastResp>>
    /\ UNCHANGED <<repliesLog, call>>

\* with open(file_path, 'w', encoding='utf-8') as f, once the metadata is
\* extracted: the file exists from here on.
OpenThreadFile ==
    /\ pc = "metadata"
    /\ tasks = <<>>
    /\ \E ok \in BOOLEAN :
          IF ok
          THEN /\ written' = Append(written, FileName(Parent))
               /\ tasks' = WriteTasks(Parent)
               /\ pc' = "write"
               /\ UNCHANGED <<exit_code, raised>>
          ELSE Abort("open") /\ UNCHANGED <<written, tasks>>
    /\ UNCHANGED <<include_replies, include_standalone, messages, cursor, ridx,
                   pidx, user_cache, exported_count, skipped_count, fetched,
                   histCalls, lastResp, lastCall, succeeded, lastFailed, badResponses>>
    /\ UNCHANGED <<repliesLog, call>>

\* An f.write of the thread file raises.
WriteRaises ==
    /\ pc = "write"
    /\ Abort("write")
    /\ UNCHANGED <<include_replies, include_standalone, messages, cursor, ridx,
                   pidx, tasks, user_cache, written, exported_count,
                   skipped_count, fetched, histCalls, lastResp,
                   lastCall, succeeded, lastFailed, badResponses>>
    /\ UNCHANGED <<repliesLog, call>>

\* The with block ends: exported_count += 1, and the loop goes on.
FinishThread ==
    /\ pc = "write"
    /\ tasks = <<>>
    /\ exported_count' = exported_count + 1
    /\ pidx' = pidx + 1
    /\ pc' = "export"
    /\ UNCHANGED <<exit_code, include_replies, include_standalone,
                   messages, cursor, ridx, tasks, user_cache, written,
                   skipped_count, fetched, histCalls, lastResp,
                   lastCall, succeeded, lastFailed, raised,
                   badResponses>>
    /\ UNCHANGED <<repliesLog, call>>

Next ==
    \/ GetChannelInfo
    \/ HistoryPage
    \/ FetchThreadReplies
    \/ MakeThreadsDir
    \/ ExportParent
    \/ GetUserDisplay
    \/ OpenThreadFile
    \/ WriteRaises
    \/ FinishThread

Spec == Init /\ [][Next]_vars

\* Every call blocks until it returns or raises, and the process runs on:
\* a step that can be taken is taken.
FairSpec == Spec /\ WF_vars(Next)

\* --------------------------------------------------------------- unit runs
\* A unit run calls one method of a SlackExporter on its own, as the tests
\* do: the arguments, the user_cache and the answers of the upstream are
\* drawn at the start, and the one step of the run is the call.
NameOnlyProfile == [nonempty |-> TRUE, real_name |-> "", display_name |-> "",
                    name |-> "alice"]

\* What users.info may answer in a unit run.
UnitResponses ==
    UsersInfoResponses \cup {[status |-> "ok", user |-> NameOnlyProfile]}

\* The caches a unit run may start with: what earlier ok answers left.
UnitCaches ==
    { NoCache,
      "U1" :> NameOnlyProfile,
      ("U1" :> NameOnlyProfile) @@ ("U2" :> EmptyProfile) }

PlainMessage == Msg(Present(Ts3_0), Absent, 0, "", "", Absent)

\* The messages whose author a unit run resolves.
UnitAuthors ==
    { [PlainMessage EXCEPT !.user = "U1"],
      [PlainMessage EXCEPT !.user = "U2"],
      PlainMessage,
      [PlainMessage EXCEPT !.subtype = "bot_message",
                           !.username = Present("DeployBot")],
      [PlainMessage EXCEPT !.subtype = "bot_message", !.user = "U1",
                           !.username = Present("DeployBot")],
      [PlainMessage EXCEPT !.subtype = "bot_message", !.user = "U2"] }

\* The threads a unit run hands to _get_thread_participants.
UnitThreads ==
    { [p EXCEPT !.replies = rs] :
         p \in UnitAuthors, rs \in SeqsUpTo(UnitAuthors, MaxEntries - 1) }

RichText(items) ==
    [type |-> "rich_text",
     elements |-> <<[type |-> "rich_text_section", elements |-> items]>>]

\* The values of message["blocks"] in a unit run: none, text and emoji, a
\* block that is no rich text, a text item with empty text, a user mention
\* and a link.
UnitBlocks ==
    { <<>>,
      <<RichText(<<Item("text", Present(<<"rich">>), "", "", Absent),
                   Item("emoji", Absent, "", "tada", Absent)>>)>>,
      <<[type |-> "divider", elements |-> <<>>]>>,
      <<RichText(<<Item("text", Present(<<>>), "", "", Absent)>>)>>,
      <<RichText(<<Item("user", Absent, "", "", Present("U2")),
                   Item("link", Absent, "http://x", "", Absent)>>)>> }

\* The messages a unit run hands to _write_message_md.
UnitBodies ==
    { [a EXCEPT !.text = t, !.blocks = b] :
         a \in {m \in UnitAuthors : m.user = "U1"},
         t \in {<<>>, <<"plain">>}, b \in UnitBlocks }

\* The calls of the unit runs, before they are made.
UnitCalls ==
    [fn : {"_fetch_thread_replies"}, status : RequestStatus,
     all_messages : SeqsUpTo(ReplyPool, UnitEntries),
     resps : {<<>>}, returned : {FALSE}]
    \cup [fn : {"_get_user_display"}, user_id : Users \cup {""},
          message : UnitAuthors, resps : [1..1 -> UnitResponses],
          returned : {FALSE}]
    \cup [fn : {"_get_thread_participants"}, message : UnitThreads,
          resps : [1..MaxEntries -> UsersInfoResponses], returned : {FALSE}]
    \cup [fn : {"_write_message_md"}, message : UnitBodies,
          resps : [1..2 -> UnitResponses], returned : {FALSE}]


\* The state of a whole run, which a unit run leaves alone.
runVars == <<pc, exit_code, include_replies, include_standalone, messages,
             cursor, ridx, pidx, tasks, written, exported_count,
             skipped_count, fetched, histCalls, lastResp, lastCall,
             succeeded, lastFailed, raised, badResponses, repliesLog>>

UnitInit ==
    /\ pc = "unit"
    /\ exit_code = -1
    /\ include_replies = FALSE
    /\ include_standalone = FALSE
    /\ messages = <<>>
    /\ cursor = "None"
    /\ ridx = 0
    /\ pidx = 0
    /\ tasks = <<>>
    /\ written = <<>>
    /\ exported_count = 0
    /\ skipped_count = 0
    /\ fetched = BagOf(<<>>)
    /\ histCalls = 0
    /\ lastResp = <<>>
    /\ lastCall = NoCall
    /\ succeeded = NoCache
    /\ lastFailed = {}
    /\ raised = {}
    /\ badResponses = {}
    /\ repliesLog = <<>>
    /\ user_cache \in UnitCaches
    /\ call \in UnitCalls

\* The call has returned result.
Returns(result) ==
    call' = [fn |-> call.fn, args |-> call, returned |-> TRUE,
             result |-> result]

\* _fetch_thread_replies(channel_id, thread_ts)
CallFetchThreadReplies ==
    /\ call.fn = "_fetch_thread_replies"
    /\ ~call.returned
    /\ IF MakeRequestRaises(call.status)
       THEN Returns([raised |-> TRUE, replies |-> <<>>])
       ELSE Returns([raised |-> FALSE,
                     replies |-> StripParent(call.all_messages)])
    /\ UNCHANGED user_cache
    /\ UNCHANGED runVars

\* _get_user_display(user_id, message)
CallGetUserDisplay ==
    /\ call.fn = "_get_user_display"
    /\ ~call.returned
    /\ LET d == UserDisplay(call.user_id, call.message, user_cache,
                            call.resps[1])
       IN  /\ Returns([label |-> d.label, upstream |-> d.upstream,
                       looked_up |-> d.looked_up])
           /\ user_cache' = d.cache
    /\ UNCHANGED runVars

\* _get_thread_participants(parent_msg)
CallGetThreadParticipants ==
    /\ call.fn = "_get_thread_participants"
    /\ ~call.returned
    /\ LET r == ThreadParticipants(call.message, user_cache, call.resps)
       IN  /\ Returns(r.result)
           /\ user_cache' = r.cache
    /\ UNCHANGED runVars

\* _write_message_md(f, message, level)
CallWriteMessageMd ==
    /\ call.fn = "_write_message_md"
    /\ ~call.returned
    /\ LET w == WriteMessageMd(call.message, user_cache, call.resps)
       IN  /\ Returns([username |-> w.username, text |-> w.text,
                       block_text |-> w.block_text])
           /\ user_cache' = w.cache
    /\ UNCHANGED runVars

UnitNext ==
    \/ CallFetchThreadReplies
    \/ CallGetUserDisplay
    \/ CallGetThreadParticipants
    \/ CallWriteMessageMd

UnitSpec == UnitInit /\ [][UnitNext]_vars

\* ------------------------------------------------------------- properties
\* This step is a get_user_info(u) call: the _get_user_display call in turn
\* is for a message of user u that is no bot message.
CallOf(u) ==
    /\ tasks # <<>>
    /\ tasks' = Tail(tasks)
    /\ Head(tasks).user = u
    /\ Head(tasks).subtype # "bot_message"

\* fetch_messages has returned its list to main.
FetchReturned ==
    \/ pc \in {"mkdir", "export", "metadata", "write", "exported", "no_messages"}
    \/ pc = "failed" /\ raised \cap {"mkdir", "open", "write"} # {}

\* The requests issued while fetching.
FetchEndpoints ==
    {"conversations.info", "conversations.history", "conversations.replies"}

\* C1: once users.info has answered ok for a user id, every later
\* get_user_info call for that id issues no users.info request and returns
\* the profile that answer carried.
C1_CacheHit ==
    [][\A u \in Users :
          (CallOf(u) /\ u \in DOMAIN succeeded)
          => /\ lastCall'.user = u
             /\ ~lastCall'.upstream
             /\ lastCall'.result = succeeded[u]
             /\ badResponses' = badResponses]_vars

C1_Witness ==
    /\ lastCall.user \in DOMAIN succeeded
    /\ ~lastCall.upstream
    /\ lastCall.result.nonempty

\* C2: a get_user_info call whose users.info request fails returns the empty
\* profile, raises nothing (the run goes on), leaves user_cache as it was,
\* and the next get_user_info call for the same id issues a new request.
C2_FailureNotCached ==
    [][\A u \in Users :
          CallOf(u)
          => /\ (u \in lastFailed' =>
                    /\ lastCall'.upstream
                    /\ lastCall'.result = EmptyProfile
                    /\ user_cache' = user_cache
                    /\ pc' # "failed"
                    /\ exit_code' = exit_code)
             /\ (u \in lastFailed => lastCall'.upstream)]_vars

C2_Witness ==
    /\ lastCall.retry
    /\ lastCall.upstream
    /\ ~lastCall.failed
    /\ lastCall.user \in DOMAIN user_cache

\* A history response after which the claim says pagination stops: has_more
\* falsy, or has_more true with no next cursor.
StopResponse(r) == ~r.has_more \/ r.next_cursor \in {"None", ""}

\* C3: whenever the last history response has falsy has_more, or has_more
\* true and no next cursor, the run is not at a history request and no
\* history error was raised; if that response was the first one, exactly one
\* history request has been issued; and a step taken after it issues none.
C3_PaginationStops ==
    [][(lastResp' # <<>> /\ StopResponse(lastResp'[1]))
       => /\ pc' # "history"
          /\ "conversations.history" \notin raised'
          /\ (lastResp = <<>> => histCalls' = 1)
          /\ (lastResp # <<>> /\ StopResponse(lastResp[1])
                => histCalls' = histCalls)]_vars

C3_Witness ==
    /\ histCalls = 1
    /\ lastResp # <<>>
    /\ lastResp[1].has_more
    /\ lastResp[1].next_cursor = "None"
    /\ pc = "exported"

\* C4: the list fetch_messages returns is non-decreasing by numeric ts: of two
\* messages that carry a ts, the earlier one's is <= the later one's.
C4_SortedByTs ==
    (FetchReturned \/ pc = "replies")
    => \A i, j \in 1..Len(messages) :
          (i < j /\ Has(messages[i].ts) /\ Has(messages[j].ts))
          => FloatOf(messages[i].ts[1]) <= FloatOf(messages[j].ts[1])

C4_Witness ==
    /\ FetchReturned
    /\ histCalls = 2
    /\ Len(messages) = 2
    /\ messages[1].ts = Present(Ts2_5)
    /\ messages[2].ts = Present(Ts10_0)

\* The message as the history page carried it, without attached replies.
AsFetched(m) == [m EXCEPT !.replies = <<>>]

\* C5: the list fetch_messages returns holds each message exactly as often as
\* the fetched history pages returned it; its length is the sum of the page
\* sizes.
C5_AllPagesAccumulated ==
    FetchReturned
    => /\ \A m \in MsgPool :
             Cardinality({i \in 1..Len(messages) : AsFetched(messages[i]) = m})
                = fetched[m]
       /\ \A i \in 1..Len(messages) : AsFetched(messages[i]) \in MsgPool
       /\ Len(messages) = BagSize(fetched)

C5_Witness ==
    /\ pc = "exported"
    /\ histCalls = 2
    /\ Len(messages) = 2
    /\ messages[1] # messages[2]

\* C6 as claimed: every run reaches its end, whatever the upstream answers.
C6_AlwaysTerminates == <>(pc \in Final)

\* C6 as amended: a run reaches its end unless the upstream answers history
\* requests with has_more true and a non-empty next cursor again and again
\* for ever.
C6_TerminatesUnlessEndlessPages ==
    \/ <>(pc \in Final)
    \/ []<>(pc = "history" /\ lastResp # <<>> /\ ~StopResponse(lastResp[1]))

C6_Witness ==
    /\ pc = "exported"
    /\ histCalls = 2
    /\ exported_count > 0

\* The file names written so far.
WrittenFiles == {written[i] : i \in 1..Len(written)}

\* C7 as claimed: in a complete run with include_standalone false, every
\* thread parent whose reply_count is greater than zero has its thread file,
\* for either value of include_replies.
C7_ThreadsWithRepliesExported ==
    (pc = "exported" /\ ~include_standalone)
    => \A i \in 1..Len(messages) :
          (messages[i].thread_ts = messages[i].ts /\ messages[i].reply_count > 0)
          => FileName(messages[i]) \in WrittenFiles

\* The parents the export loop has dealt with, and those of them it skips by
\* the claim's rule: zero replies and include_standalone false.
DoneParents == SubSeq(ThreadParents(messages), 1, pidx - 1)

RECURSIVE FilesOf(_)
FilesOf(ps) ==
    IF ps = <<>> THEN <<>>
    ELSE IF Len(ps[1].replies) = 0 /\ ~include_standalone THEN FilesOf(Tail(ps))
    ELSE <<FileName(ps[1])>> \o FilesOf(Tail(ps))

\* C8: each thread parent with zero replies and include_standalone false adds
\* one to skipped_count and writes no file; each other parent writes exactly
\* one file and adds one to exported_count.
C8_SkipOrExportEachParent ==
    pc \in {"export", "exported"}
    => /\ written = FilesOf(DoneParents)
       /\ exported_count = Len(FilesOf(DoneParents))
       /\ skipped_count = Len(DoneParents) - Len(FilesOf(DoneParents))
       /\ (pc = "exported" => Len(DoneParents) = Len(ThreadParents(messages)))

C8_Witness ==
    /\ pc = "exported"
    /\ skipped_count = 1
    /\ exported_count = 1

\* C9: when a request made while fetching has failed, the run has ended and
\* no thread file exists; a thread file exists only after fetch_messages has
\* returned.
C9_NoFileUnlessFetchComplete ==
    /\ (badResponses \cap FetchEndpoints # {}) => (written = <<>> /\ pc = "failed")
    /\ written # <<>> => pc \notin {"channel_info", "history", "replies"}

C9_Witness ==
    /\ "conversations.replies" \in badResponses
    /\ histCalls = 2
    /\ Len(messages) = 2

\* C10 as claimed: an exception raised anywhere but in the user-profile
\* lookup ends the run with a non-zero exit status.
C10_OnlyUserLookupSwallows ==
    \A c \in raised \ {"users.info"} : pc = "failed" /\ exit_code = 1

\* C10 as amended: an exception raised, or a failed answer received, anywhere
\* but in the user-profile lookup and the two float(ts) fallbacks ends the
\* run with exit status 1.
C10_PropagatesExceptLookupAndTsParse ==
    \A c \in (raised \cup badResponses) \ {"users.info", "metadata.ts", "render.ts"} :
        pc = "failed" /\ exit_code = 1

C10_Witness ==
    /\ pc = "failed"
    /\ "write" \in raised
    /\ "metadata.ts" \in raised
    /\ "users.info" \in raised

\* C11 as claimed: after export_threads_individually the number of distinct
\* thread files written equals exported_count, whatever list fetch_messages
\* returned.
C11_DistinctFilesEqualExported ==
    pc = "exported" => Cardinality(WrittenFiles) = exported_count

\* The indices of the messages whose reply_count is greater than zero, in
\* the order of the list.
ThreadedIndices(ms) ==
    LET RECURSIVE From(_)
        From(i) == IF i > Len(ms) THEN <<>>
                   ELSE IF ms[i].reply_count > 0 THEN <<i>> \o From(i + 1)
                   ELSE From(i + 1)
    IN  From(1)

\* C12: once fetch_messages has returned, with include_replies exactly one
\* thread-replies request has been issued for each message of the list whose
\* reply_count is greater than zero, in list order, that message's replies
\* are what its request returned, and every other message has none attached;
\* without include_replies no thread-replies request has been issued and no
\* message has replies attached.
C12_OneRepliesRequestPerThread ==
    FetchReturned
    => /\ include_replies
          => /\ Len(repliesLog) = Len(ThreadedIndices(messages))
             /\ \A k \in 1..Len(repliesLog) :
                   /\ repliesLog[k].idx = ThreadedIndices(messages)[k]
                   /\ repliesLog[k].result =
                         Present(messages[repliesLog[k].idx].replies)
             /\ \A i \in 1..Len(messages) :
                   messages[i].reply_count = 0 => messages[i].replies = <<>>
       /\ ~include_replies
          => /\ repliesLog = <<>>
             /\ \A i \in 1..Len(messages) : messages[i].replies = <<>>

C12_Witness ==
    /\ pc = "exported"
    /\ include_replies
    /\ Len(messages) = 2
    /\ Len(repliesLog) = 1
    /\ repliesLog[1].idx = 2
    /\ messages[2].replies # <<>>
    /\ messages[1].reply_count = 0

\* C13: _fetch_thread_replies returns the entries of the replies response
\* without the first one and in the order of the response: N - 1 replies for
\* N > 1 entries, none for one entry or no entry.
C13_RepliesAreEntriesAfterFirst ==
    (call.fn = "_fetch_thread_replies" /\ call.returned /\ ~call.result.raised)
    => LET all_messages == call.args.all_messages
           replies == call.result.replies
       IN  /\ Len(all_messages) > 1 => Len(replies) = Len(all_messages) - 1
           /\ Len(all_messages) <= 1 => replies = <<>>
           /\ \A i \in 1..Len(replies) : replies[i] = all_messages[i + 1]

C13_Witness ==
    /\ call.fn = "_fetch_thread_replies"
    /\ call.returned
    /\ Len(call.args.all_messages) = 3
    /\ Len(call.result.replies) = 2
    /\ call.result.replies[1] # call.result.replies[2]
    /\ call.args.all_messages[1] # call.args.all_messages[2]

\* C14 as claimed: only a message that has a thread_ts equal to its own ts
\* gets a thread file or is counted; a message whose thread_ts is absent or
\* differs from its ts gets no file and adds to neither exported_count nor
\* skipped_count, whatever include_standalone is.
C14_OnlyMessagesWithOwnThreadTs ==
    LET parents == {i \in 1..Len(messages) :
                       /\ Has(messages[i].thread_ts)
                       /\ messages[i].thread_ts = messages[i].ts}
    IN  /\ \A k \in 1..Len(written) :
              \E i \in parents : FileName(messages[i]) = written[k]
        /\ exported_count + skipped_count <= Cardinality(parents)

\* C15 as claimed: the text _write_message_md writes for a message is the
\* message's explicit text whenever that is non-empty, and the block text
\* only when the explicit text is empty and the message has blocks.
C15_ExplicitTextFirst ==
    (call.fn = "_write_message_md" /\ call.returned)
    => LET message == call.args.message
       IN  /\ message.text # <<>> => call.result.text = message.text
           /\ call.result.text # message.text
                 => message.text = <<>> /\ message.blocks # <<>>

\* C15 as amended: the text _write_message_md writes is the text rendered
\* from the blocks whenever the message has blocks and they render to a
\* non-empty text, whatever the explicit text is; otherwise it is the
\* explicit text.
C15_BlockTextFirst ==
    (call.fn = "_write_message_md" /\ call.returned)
    => LET message == call.args.message
           block_text == call.result.block_text
       IN  IF message.blocks # <<>> /\ Has(block_text) /\ block_text[1] # <<>>
           THEN call.result.text = block_text[1]
           ELSE call.result.text = message.text

C15_Witness ==
    /\ call.fn = "_write_message_md"
    /\ call.returned
    /\ call.args.message.text = <<"plain">>
    /\ call.result.block_text = Present(<<"rich", ":", "tada", ":">>)
    /\ call.result.text = <<"rich", ":", "tada", ":">>

\* The labels _get_user_display can give the author of message m, over the
\* caches and the users.info answers of a unit run.
AuthorLabels(m) ==
    { UserDisplay(m.user, m, c, resp).label :
         c \in UnitCaches \cup {user_cache}, resp \in UnitResponses }

\* The place of a label in the order of sorted().
LabelRank(label) == CHOOSE n \in 1..Len(LabelOrder) : LabelOrder[n] = label

\* C16 as claimed: the list _get_thread_participants returns is sorted
\* without duplicates, holds a resolved label of the author of the parent and of
\* every reply, and holds nothing else.
C16_EveryAuthorIsParticipant ==
    (call.fn = "_get_thread_participants" /\ call.returned)
    => LET thread == <<call.args.message>> \o call.args.message.replies
           participants == call.result
       IN  /\ \A i, j \in 1..Len(participants) :
                 i < j => LabelRank(participants[i]) < LabelRank(participants[j])
           /\ \A k \in 1..Len(thread) :
                 \E i \in 1..Len(participants) :
                    participants[i] \in AuthorLabels(thread[k])
           /\ \A i \in 1..Len(participants) :
                 \E k \in 1..Len(thread) :
                    participants[i] \in AuthorLabels(thread[k])

\* This step is a _get_user_display call for a bot message.
BotDisplayCall ==
    /\ call.fn = "_get_user_display"
    /\ ~call.returned
    /\ call'.returned
    /\ call.message.subtype = "bot_message"

\* C17 as claimed: for a message whose subtype is bot_message,
\* _get_user_display returns exactly the message's username field and calls
\* no get_user_info (no cache read, no users.info request), whatever the
\* user id is.
C17_BotLabelIsUsername ==
    [][BotDisplayCall
       => /\ Has(call.message.username)
          /\ call'.result.label = <<call.message.username[1]>>
          /\ ~call'.result.looked_up
          /\ ~call'.result.upstream
          /\ user_cache' = user_cache]_vars

\* C17 as amended: for a message whose subtype is bot_message,
\* _get_user_display returns the message's username field, or "Bot" when
\* the message has none, and calls no get_user_info (no cache read, no
\* users.info request, user_cache as it was), whatever the user id is.
C17_BotLabelIsUsernameOrBot ==
    [][BotDisplayCall
       => /\ call'.result.label = (IF Has(call.message.username)
                                   THEN <<call.message.username[1]>>
                                   ELSE <<"Bot">>)
          /\ ~call'.result.looked_up
          /\ ~call'.result.upstream
          /\ user_cache' = user_cache]_vars

C17_Witness ==
    /\ call.fn = "_get_user_display"
    /\ call.returned
    /\ call.args.message.subtype = "bot_message"
    /\ call.args.user_id = "U2"
    /\ "U2" \notin DOMAIN user_cache
    /\ call.args.resps[1].status = "ok"
    /\ call.result.label = <<"DeployBot">>

\* C18: a history request that follows a history response carries the
\* cursor that response returned and is issued when the messages of every
\* response so far are in the list; no history request is issued once a
\* thread-replies request has been issued.
C18_RequestsInOrder ==
    [][/\ pc = "history"
          => /\ lastResp # <<>>
                => /\ lastResp[1].has_more
                   /\ RequestCursor(cursor) = Present(lastResp[1].next_cursor)
             /\ Len(messages) = BagSize(fetched)
             /\ repliesLog = <<>>
       /\ repliesLog' # <<>> => pc' # "history"]_vars

C18_Witness ==
    /\ pc = "replies"
    /\ histCalls = 2
    /\ lastResp # <<>>
    /\ ~lastResp[1].has_more
    /\ Len(repliesLog) = 1
    /\ Len(messages) = 2

====
